---------------------------- MODULE Spec2Model ----------------------------
(***************************************************************************)
(* Password hashing and verification of go-apibuilder                      *)
(* (internal/util/password.go).                                            *)
(*                                                                         *)
(* A string is a sequence of one-character strings, a byte slice is a      *)
(* sequence of numbers in 0..255.  base64.RawStdEncoding, strings.Split    *)
(* and fmt.Sscan are modelled by what they compute on these sequences.     *)
(* pbkdf2.Key is an external primitive: it is modelled as a deterministic  *)
(* function of (password, salt, iterations) whose output of length n is a  *)
(* prefix of its longer outputs, as PBKDF2 is.                             *)
(***************************************************************************)
EXTENDS Integers, Sequences, FiniteSets, TLC

(***************************************************************************)
(* Program constants (password.go, lines 15-27).                           *)
(***************************************************************************)
passwordSaltBytes == 16

passwordHashBytes == 32

passwordIterations == 1000000

passwordAlgorithmKey == <<"p","b","k","d","f","2","-","s","h","a","2","5","6">>

ErrInvalidHashFormat == "invalid hash format"

ErrIncompatibleAlgorithm == "incompatible algorithm"

\* The anonymous errors of HashPassword and CheckPasswordHash, named by the
\* message each is built with.
ErrPasswordEmpty == "password cannot be empty"

ErrGenerateSalt == "failed to generate salt"

ErrEmptyArguments == "password and stored hash cannot be empty"

ErrParseIterations == "failed to parse iterations"

ErrDecodeSalt == "failed to decode salt"

ErrDecodeHash == "failed to decode hash"

(***************************************************************************)
(* Bounds of the model.                                                    *)
(***************************************************************************)
\* Plaintexts are the empty string and the first NumPasswords non-empty
\* strings over PasswordAlphabet.
NumPasswords == 2

\* The random source yields one of NumSalts salts, or fails.
NumSalts == 2

\* Successful HashPassword results that are remembered.
MaxIssued == 1

\* A crafted stored hash has 1..MaxFields fields.
MaxFields == 5

\* Stored hashes of earlier cost settings carry 1..MaxOldIterations
\* iterations (or one of the two counts that password.go names).
MaxOldIterations == 8

\* Concurrent invocations.
NumProcs == 2

\* Rows the users table gets.
NumUsers == 1

(***************************************************************************)
(* Text helpers.                                                           *)
(***************************************************************************)
Digits == <<"0","1","2","3","4","5","6","7","8","9">>

RECURSIVE IndexOf(_, _, _)
\* The least i >= from with seq[i] = c, or 0.
IndexOf(c, seq, from) ==
    IF from > Len(seq) THEN 0
    ELSE IF seq[from] = c THEN from
    ELSE IndexOf(c, seq, from + 1)

Range(seq) == {seq[i] : i \in 1..Len(seq)}

RECURSIVE FormatInt(_)
\* fmt's %d of a non-negative int.
FormatInt(n) ==
    IF n < 10 THEN <<Digits[n + 1]>>
    ELSE Append(FormatInt(n \div 10), Digits[(n % 10) + 1])

RECURSIVE SplitDropEmpty(_, _)
\* Split with the slip of dropping empty fields (what strings.FieldsFunc
\* does).
SplitDropEmpty(s, sep) ==
    LET i == IndexOf(sep, s, 1)
        head == IF i = 0 THEN s ELSE SubSeq(s, 1, i - 1)
        rest == IF i = 0 THEN <<>> ELSE SplitDropEmpty(SubSeq(s, i + 1, Len(s)), sep)
    IN  IF head = <<>> THEN rest ELSE <<head>> \o rest

RECURSIVE Split(_, _)
\* strings.Split(s, sep) for a one-character sep: the fields between the
\* separators, one more than there are separators.
Split(s, sep) ==
    LET i == IndexOf(sep, s, 1) IN
    IF i = 0 THEN <<s>>
    ELSE <<SubSeq(s, 1, i - 1)>> \o Split(SubSeq(s, i + 1, Len(s)), sep)

RECURSIVE Join(_, _)
\* The fields joined by sep (the "%s:%d:%s:%s" of HashPassword).
Join(fields, sep) ==
    IF Len(fields) = 0 THEN <<>>
    ELSE IF Len(fields) = 1 THEN fields[1]
    ELSE fields[1] \o <<sep>> \o Join(Tail(fields), sep)

(***************************************************************************)
(* encoding/base64, RawStdEncoding: the standard alphabet, no padding,     *)
(* not strict.                                                             *)
(***************************************************************************)
encodeStd ==
    <<"A","B","C","D","E","F","G","H","I","J","K","L","M",
      "N","O","P","Q","R","S","T","U","V","W","X","Y","Z",
      "a","b","c","d","e","f","g","h","i","j","k","l","m",
      "n","o","p","q","r","s","t","u","v","w","x","y","z",
      "0","1","2","3","4","5","6","7","8","9","+","/">>

\* decodeMap[c] is the 6-bit value of an alphabet character; every other
\* character is outside its domain (0xff in the Go table).
decodeMap == [c \in Range(encodeStd) |-> IndexOf(c, encodeStd, 1) - 1]

RECURSIVE EncodeToString(_)
\* Each 3 bytes give 4 characters; 1 or 2 remaining bytes give 2 or 3
\* characters whose unused low bits are zero; no padding is written.
EncodeToString(src) ==
    IF Len(src) = 0 THEN <<>>
    ELSE IF Len(src) = 1 THEN
        LET val == src[1] * 65536 IN
        << encodeStd[((val \div 262144) % 64) + 1],
           encodeStd[((val \div 4096) % 64) + 1] >>
    ELSE IF Len(src) = 2 THEN
        LET val == src[1] * 65536 + src[2] * 256 IN
        << encodeStd[((val \div 262144) % 64) + 1],
           encodeStd[((val \div 4096) % 64) + 1],
           encodeStd[((val \div 64) % 64) + 1] >>
    ELSE
        LET val == src[1] * 65536 + src[2] * 256 + src[3] IN
        << encodeStd[((val \div 262144) % 64) + 1],
           encodeStd[((val \div 4096) % 64) + 1],
           encodeStd[((val \div 64) % 64) + 1],
           encodeStd[(val % 64) + 1] >>
        \o EncodeToString(SubSeq(src, 4, Len(src)))

RECURSIVE readQuantum(_, _, _)
\* The reading loop of decodeQuantum: up to four 6-bit values from src[si..],
\* skipping "\n" and "\r".  With no padding character every other character
\* outside the alphabet is corrupt input, and so is an input that ends one
\* character into a quantum.
readQuantum(src, si, dbuf) ==
    IF Len(dbuf) = 4 THEN [nsi |-> si, dbuf |-> dbuf, err |-> FALSE]
    ELSE IF si > Len(src) THEN
        [nsi |-> si, dbuf |-> dbuf, err |-> (Len(dbuf) = 1)]
    ELSE IF src[si] \in DOMAIN decodeMap THEN
        readQuantum(src, si + 1, Append(dbuf, decodeMap[src[si]]))
    ELSE IF src[si] \in {"\n", "\r"} THEN
        readQuantum(src, si + 1, dbuf)
    ELSE [nsi |-> si + 1, dbuf |-> dbuf, err |-> TRUE]

\* The bytes of a quantum of dlen 6-bit values: dlen - 1 bytes; not being
\* strict, the decoder drops the bits that are left over.
quantumBytes(dbuf) ==
    LET at(j) == IF j <= Len(dbuf) THEN dbuf[j] ELSE 0
        val   == at(1) * 262144 + at(2) * 4096 + at(3) * 64 + at(4)
        all   == << val \div 65536, (val \div 256) % 256, val % 256 >>
    IN  IF Len(dbuf) = 0 THEN <<>> ELSE SubSeq(all, 1, Len(dbuf) - 1)

RECURSIVE decodeFrom(_, _)
decodeFrom(src, si) ==
    LET q == readQuantum(src, si, <<>>) IN
    IF q.err THEN [bytes |-> <<>>, err |-> TRUE]
    ELSE IF Len(q.dbuf) = 0 THEN [bytes |-> <<>>, err |-> FALSE]
    ELSE LET rest == decodeFrom(src, q.nsi) IN
         [bytes |-> quantumBytes(q.dbuf) \o rest.bytes, err |-> rest.err]

\* DecodeString with the slip of taking base64.StdEncoding, which wants the
\* input padded to a multiple of four characters.
DecodeStringPadded(s) ==
    IF Len(s) % 4 # 0 THEN [bytes |-> <<>>, err |-> TRUE] ELSE decodeFrom(s, 1)

\* DecodeString with the decoder made strict: left-over bits that are not
\* zero, and line breaks, are corrupt input.
DecodeStringStrict(s) ==
    LET d == decodeFrom(s, 1) IN
    IF ~d.err /\ EncodeToString(d.bytes) # s
    THEN [bytes |-> <<>>, err |-> TRUE]
    ELSE d

\* base64.RawStdEncoding.DecodeString.
DecodeString(s) == decodeFrom(s, 1)

(***************************************************************************)
(* parseInt: fmt.Sscan(s, &n) with n an int.  The scan skips leading white *)
(* space, takes an optional sign, an optional base prefix and the digits   *)
(* that follow, converts that token with strconv.ParseInt(tok, 0, 64) and  *)
(* leaves whatever comes after the token unread.  The iteration fields of  *)
(* the model are short, so the 64-bit overflow check never fires.          *)
(***************************************************************************)
Spaces == {" ", "\t", "\n", "\r"}

hexLetters == <<"a","b","c","d","e","f">>

hexCapitals == <<"A","B","C","D","E","F">>

\* The digit sets of scanBasePrefix, each with the underscore.
binaryDigits == {"0", "1", "_"}

octalDigits == {"0","1","2","3","4","5","6","7","_"}

decimalDigits == Range(Digits) \cup {"_"}

hexadecimalDigits == Range(Digits) \cup Range(hexLetters) \cup Range(hexCapitals) \cup {"_"}

\* The value of a digit character, 99 for any other character.
digitVal(c) ==
    IF c \in Range(Digits) THEN IndexOf(c, Digits, 1) - 1
    ELSE IF c \in Range(hexLetters) THEN 9 + IndexOf(c, hexLetters, 1)
    ELSE IF c \in Range(hexCapitals) THEN 9 + IndexOf(c, hexCapitals, 1)
    ELSE 99

RECURSIVE SkipSpace(_, _)
\* The index of the first character of s at or after i that is no space.
SkipSpace(s, i) ==
    IF i <= Len(s) /\ s[i] \in Spaces THEN SkipSpace(s, i + 1) ELSE i

RECURSIVE acceptAll(_, _, _)
\* for s.accept(digits) {}: the index after the run of characters of
\* `digits` that starts at i.
acceptAll(s, i, digits) ==
    IF i <= Len(s) /\ s[i] \in digits THEN acceptAll(s, i + 1, digits) ELSE i

\* scanBasePrefix at index i: the digit set, whether a digit was read, and
\* the index after the prefix.
scanBasePrefix(s, i) ==
    LET peek(j, set) == j <= Len(s) /\ s[j] \in set IN
    IF ~peek(i, {"0"}) THEN [digits |-> decimalDigits, found |-> FALSE, next |-> i]
    ELSE IF peek(i + 1, {"b", "B"})
        THEN [digits |-> binaryDigits, found |-> TRUE, next |-> i + 2]
    ELSE IF peek(i + 1, {"o", "O"})
        THEN [digits |-> octalDigits, found |-> TRUE, next |-> i + 2]
    ELSE IF peek(i + 1, {"x", "X"})
        THEN [digits |-> hexadecimalDigits, found |-> TRUE, next |-> i + 2]
    ELSE [digits |-> octalDigits, found |-> TRUE, next |-> i + 1]

RECURSIVE underscoreOK(_, _, _)
\* strconv's underscoreOK on the digits of a token (after sign and prefix):
\* an underscore must follow a digit (or the base prefix) and be followed
\* by a digit.  prev is "0" after a digit, "_" after an underscore, "^" at
\* the start.
underscoreOK(s, i, prev) ==
    IF i > Len(s) THEN prev # "_"
    ELSE IF s[i] = "_" THEN prev = "0" /\ underscoreOK(s, i + 1, "_")
    ELSE underscoreOK(s, i + 1, "0")

RECURSIVE digitsValue(_, _, _, _)
\* The loop of strconv.ParseUint: the value of s[i..] in `base`, underscores
\* skipped; -1 when a character is no digit of the base.
digitsValue(s, i, base, acc) ==
    IF i > Len(s) THEN acc
    ELSE IF s[i] = "_" THEN digitsValue(s, i + 1, base, acc)
    ELSE IF digitVal(s[i]) >= base THEN -1
    ELSE digitsValue(s, i + 1, base, acc * base + digitVal(s[i]))

\* strconv.ParseInt(tok, 0, 64): sign, base from the prefix, digits.
ParseInt(tok) ==
    LET signed == Len(tok) > 0 /\ tok[1] \in {"+", "-"}
        neg    == Len(tok) > 0 /\ tok[1] = "-"
        body   == IF signed THEN Tail(tok) ELSE tok
        long   == Len(body) >= 3 /\ body[1] = "0"
        base   == IF Len(body) = 0 \/ body[1] # "0" THEN 10
                  ELSE IF long /\ body[2] \in {"b", "B"} THEN 2
                  ELSE IF long /\ body[2] \in {"o", "O"} THEN 8
                  ELSE IF long /\ body[2] \in {"x", "X"} THEN 16
                  ELSE 8
        skip   == IF Len(body) = 0 \/ body[1] # "0" THEN 0
                  ELSE IF long /\ body[2] \in {"b","B","o","O","x","X"} THEN 2
                  ELSE 1
        prefixed == Len(body) >= 2 /\ body[1] = "0"
                    /\ body[2] \in {"b","B","o","O","x","X"}
        val    == digitsValue(body, skip + 1, base, 0)
        usOK   == IF prefixed THEN underscoreOK(body, 3, "0")
                  ELSE underscoreOK(body, 1, "^")
    IN  IF Len(body) = 0 \/ val < 0 \/ ("_" \in Range(body) /\ ~usOK)
        THEN [n |-> 0, err |-> TRUE]
        ELSE [n |-> IF neg THEN 0 - val ELSE val, err |-> FALSE]

\* parseInt(s): (n, err) of fmt.Sscan(s, &n).
parseInt(s) ==
    LET start  == SkipSpace(s, 1)
        signed == start <= Len(s) /\ s[start] \in {"+", "-"}
        afterSign == IF signed THEN start + 1 ELSE start
        prefix == scanBasePrefix(s, afterSign)
        first  == prefix.next
        hasDigit == prefix.found \/ (first <= Len(s) /\ s[first] \in prefix.digits)
        stop   == acceptAll(s, first, prefix.digits)
    IN  IF start > Len(s) THEN [n |-> 0, err |-> TRUE]
        ELSE IF ~hasDigit THEN [n |-> 0, err |-> TRUE]
        ELSE ParseInt(SubSeq(s, start, stop - 1))

(***************************************************************************)
(* pbkdf2.Key(password, salt, iter, keyLen, sha256.New).                   *)
(*                                                                         *)
(* The key is the first keyLen bytes of the 32-byte blocks T1, T2, ...;    *)
(* block i is a pseudo-random function of (password, salt, iter, i).  The  *)
(* iteration loop runs from 2 to iter, so every iter below 1 derives what  *)
(* iter = 1 derives.  The pseudo-random function is modelled by a rolling  *)
(* digest of its inputs, spread over the 32 bytes of the block so that any *)
(* three neighbouring bytes determine the digest.                          *)
(***************************************************************************)
PasswordAlphabet == <<"a", "b">>

sha256Size == 32

digestModulus == 1048573

digestMultiplier == 131

RECURSIVE absorb(_, _, _)
\* The digest h after the numbers of seq[i..] are absorbed.
absorb(h, seq, i) ==
    IF i > Len(seq) THEN h
    ELSE absorb((h * digestMultiplier + seq[i] + 1) % digestModulus, seq, i + 1)

prfDigest(password, salt, iter, block) ==
    LET codes == [i \in 1..Len(password) |-> IndexOf(password[i], PasswordAlphabet, 1)]
        h1 == absorb(Len(password) + 1, codes, 1)
        h2 == absorb((h1 * digestMultiplier + Len(salt)) % digestModulus, salt, 1)
        it == IF iter < 1 THEN 1 ELSE iter
    IN  absorb(h2, <<it % digestModulus, block>>, 1)

prfBlock(password, salt, iter, block) ==
    LET h == prfDigest(password, salt, iter, block)
        part(k) == IF k % 3 = 1 THEN h % 256
                   ELSE IF k % 3 = 2 THEN (h \div 256) % 256
                   ELSE h \div 65536
    IN  [k \in 1..sha256Size |-> (part(k) + 31 * k) % 256]

RECURSIVE blocks(_, _, _, _, _)
blocks(password, salt, iter, from, to) ==
    IF from > to THEN <<>>
    ELSE prfBlock(password, salt, iter, from)
         \o blocks(password, salt, iter, from + 1, to)

Key(password, salt, iter, keyLen) ==
    LET numBlocks == (keyLen + sha256Size - 1) \div sha256Size
    IN  SubSeq(blocks(password, salt, iter, 1, numBlocks), 1, keyLen)

\* subtle.ConstantTimeCompare(x, y) = 1: equal lengths and equal bytes.
ConstantTimeCompare(x, y) == Len(x) = Len(y) /\ \A i \in 1..Len(x) : x[i] = y[i]

(***************************************************************************)
(* HashPassword (password.go, lines 31-49).  rnd is what rand.Read does on *)
(* this call: it fills the salt, or fails.                                 *)
(***************************************************************************)
\* FormatHash with the slip of writing the digest before the salt.
FormatHashSwapped(b64Salt, b64Hash) ==
    Join(<<passwordAlgorithmKey, FormatInt(passwordIterations), b64Hash, b64Salt>>, ":")

FormatHash(b64Salt, b64Hash) ==
    Join(<<passwordAlgorithmKey, FormatInt(passwordIterations), b64Salt, b64Hash>>, ":")

\* HashPassword with the slip of never filling the salt buffer: the salt is
\* the zero bytes that make() returned.
HashPasswordZeroSalt(password, rnd) ==
    IF password = <<>> THEN
        [hash |-> <<>>, err |-> ErrPasswordEmpty, salts |-> 0, keys |-> 0]
    ELSE IF ~rnd.ok THEN
        [hash |-> <<>>, err |-> ErrGenerateSalt, salts |-> 1, keys |-> 0]
    ELSE
        LET salt == [k \in 1..passwordSaltBytes |-> 0]
            hash == Key(password, salt, passwordIterations, passwordHashBytes)
        IN  [hash |-> FormatHash(EncodeToString(salt), EncodeToString(hash)),
             err |-> "nil", salts |-> 1, keys |-> 1]

HashPasswordResult(password, rnd) ==
    IF password = <<>> THEN
        [hash |-> <<>>, err |-> ErrPasswordEmpty, salts |-> 0, keys |-> 0]
    ELSE IF ~rnd.ok THEN
        [hash |-> <<>>, err |-> ErrGenerateSalt, salts |-> 1, keys |-> 0]
    ELSE
        LET hash == Key(password, rnd.salt, passwordIterations, passwordHashBytes)
        IN  [hash |-> FormatHash(EncodeToString(rnd.salt), EncodeToString(hash)),
             err |-> "nil", salts |-> 1, keys |-> 1]

(***************************************************************************)
(* CheckPasswordHash (password.go, lines 53-92).                           *)
(***************************************************************************)
\* emptyArguments with the slip of && for ||.
emptyArgumentsBoth(password, storedHash) == password = <<>> /\ storedHash = <<>>

\* Line 54: password == "" || storedHash == "".
emptyArguments(password, storedHash) == password = <<>> \/ storedHash = <<>>

\* algorithmSupported with the slip of a prefix test,
\* strings.HasPrefix(passwordAlgorithmKey, algorithm).
algorithmSupportedPrefix(algorithm) ==
    /\ Len(algorithm) <= Len(passwordAlgorithmKey)
    /\ algorithm = SubSeq(passwordAlgorithmKey, 1, Len(algorithm))

\* Line 64: algorithm != passwordAlgorithmKey, negated.
algorithmSupported(algorithm) == algorithm = passwordAlgorithmKey

\* matches with the slip of comparing the lengths only.
matchesLengthOnly(password, salt, iterations, hash) ==
    Len(hash) = Len(Key(password, salt, iterations, Len(hash)))

\* matches with the slip of deriving with the current default cost instead
\* of the stored one.
matchesDefaultCost(password, salt, iterations, hash) ==
    ConstantTimeCompare(hash, Key(password, salt, passwordIterations, Len(hash)))

\* Lines 84-91: the key is derived again with the stored salt, the stored
\* iteration count and the length of the stored digest, and compared.
matches(password, salt, iterations, hash) ==
    ConstantTimeCompare(hash, Key(password, salt, iterations, Len(hash)))

CheckPasswordHashResult(password, storedHash) ==
    IF emptyArguments(password, storedHash) THEN
        [ok |-> FALSE, err |-> ErrEmptyArguments, keys |-> 0]
    ELSE
    LET parts == Split(storedHash, ":") IN
    IF Len(parts) # 4 THEN
        [ok |-> FALSE, err |-> ErrInvalidHashFormat, keys |-> 0]
    ELSE IF ~algorithmSupported(parts[1]) THEN
        [ok |-> FALSE, err |-> ErrIncompatibleAlgorithm, keys |-> 0]
    ELSE
    LET iterations == parseInt(parts[2]) IN
    IF iterations.err THEN
        [ok |-> FALSE, err |-> ErrParseIterations, keys |-> 0]
    ELSE
    LET salt == DecodeString(parts[3]) IN
    IF salt.err THEN
        [ok |-> FALSE, err |-> ErrDecodeSalt, keys |-> 0]
    ELSE
    LET hash == DecodeString(parts[4]) IN
    IF hash.err THEN
        [ok |-> FALSE, err |-> ErrDecodeHash, keys |-> 0]
    ELSE
        [ok |-> matches(password, salt.bytes, iterations.n, hash.bytes),
         err |-> "nil", keys |-> 1]

(***************************************************************************)
(* The inputs of the model.                                                *)
(***************************************************************************)
RECURSIVE PasswordOf(_)
\* The i-th non-empty string over PasswordAlphabet, shortest first:
\* a, b, aa, ab, ba, bb, aaa, ...
PasswordOf(i) ==
    LET n == Len(PasswordAlphabet) IN
    IF i <= n THEN <<PasswordAlphabet[i]>>
    ELSE Append(PasswordOf((i - 1) \div n), PasswordAlphabet[((i - 1) % n) + 1])

NonEmptyPasswords == {PasswordOf(i) : i \in 1..NumPasswords}

Passwords == {<<>>} \cup NonEmptyPasswords

\* The i-th salt the random source can yield: passwordSaltBytes bytes.
Salt(i) == [k \in 1..passwordSaltBytes |-> (97 * i + 53 * k * i) % 256]

\* What rand.Read can do on one call.
RandReads ==
    {[ok |-> TRUE, salt |-> Salt(i)] : i \in 1..NumSalts}
    \cup {[ok |-> FALSE, salt |-> <<>>]}

scrypt == <<"s","c","r","y","p","t">>

AlgorithmFields == {passwordAlgorithmKey, scrypt, <<>>}

IterationFields ==
    { <<"1">>, FormatInt(passwordIterations), <<"0">>, <<"-","5">>,
      <<"1","2","a">>, <<"a","b","c">>, <<>>, <<"+","2">>, <<" ","3">>,
      <<"0","1","0">>, <<"0","x","1","f">>, <<"1","_","0">>, <<"_","1">> }

SaltFields == { <<"A","A">>, <<"A">>, <<"!","!">> }

DigestFields == { <<"A","A">>, <<>>, <<"A","=">> }

\* Stored hashes that HashPassword did not produce: every combination of
\* the four sample fields, and 1..MaxFields fields that are the algorithm
\* name or empty.
CraftedHashes ==
    { Join(<<a, n, s, d>>, ":") :
        a \in AlgorithmFields, n \in IterationFields,
        s \in SaltFields, d \in DigestFields }
    \cup { Join(f, ":") :
        f \in UNION {[1..k -> {passwordAlgorithmKey, <<>>}] : k \in 1..MaxFields} }

\* The index of the first character of the digest field of an EncodedHash
\* that HashPassword returned.
digestChars == Len(EncodeToString([k \in 1..passwordHashBytes |-> 0]))

DigestStart(h) == Len(h) - digestChars + 1

\* The characters that replace character c in a tampered digest: two other
\* characters of the alphabet, and three outside it.
Replacements(c) ==
    LET v == IndexOf(c, encodeStd, 1) - 1 IN
    { encodeStd[((v + 1) % 64) + 1], encodeStd[((v + 4) % 64) + 1], ":", "\n", "!" }

\* h with one character of its digest field replaced by another.
TamperedHashes(h) ==
    UNION { { [h EXCEPT ![pos] = c] : c \in Replacements(h[pos]) } :
            pos \in DigestStart(h)..Len(h) }

(***************************************************************************)
(* State.  The two functions keep none; the model records what a caller    *)
(* sees: the EncodedHash values HashPassword returned last (at most        *)
(* MaxIssued of them, oldest first) and the call that has just returned.   *)
(***************************************************************************)
VARIABLES issued, call

\* frames[p] is the stack frame of the p-th of the concurrent invocations:
\* where it stands, its arguments, its local variables and its results.
VARIABLES frames

\* What the sequential callers of the two functions leave alone.
\* The users table of the store (id -> row), the next value of its id
\* sequence, and the repository call that returned last.
VARIABLES users, nextId, repo

store == <<users, nextId, repo>>

others == <<frames, store>>

vars == <<issued, call, others>>

Procs == 1..NumProcs

NoRand == [ok |-> FALSE, salt |-> <<>>]

NoFrame ==
    [pc |-> "idle", op |-> "none", password |-> <<>>, storedHash |-> <<>>,
     rnd |-> NoRand, iterations |-> 0, salt |-> <<>>, digest |-> <<>>,
     hash |-> <<>>, ok |-> FALSE, err |-> "nil"]

\* pgtype.Text: a nullable string.
Text(String, Valid) == [String |-> String, Valid |-> Valid]

NoRepo ==
    [op |-> "none", id |-> 0, password |-> Text(<<>>, FALSE), hashCalls |-> 0,
     hash |-> <<>>, storeCalled |-> FALSE, storeArg |-> Text(<<>>, FALSE),
     err |-> "nil", before |-> <<>>]

NoCall ==
    [op |-> "none", password |-> <<>>, storedHash |-> <<>>, salt |-> <<>>,
     hash |-> <<>>, ok |-> FALSE, err |-> "nil", salts |-> 0, keys |-> 0]

Init ==
    /\ issued = <<>>
    /\ call = NoCall
    /\ frames = [p \in Procs |-> NoFrame]
    /\ users = <<>>
    /\ nextId = 1
    /\ repo = NoRepo

\* The stored hashes a caller verifies against: one HashPassword returned,
\* the latest of them tampered with, or a crafted one.
StoredHashes ==
    {issued[i].hash : i \in 1..Len(issued)}
    \cup (IF Len(issued) = 0 THEN {} ELSE TamperedHashes(issued[Len(issued)].hash))
    \cup CraftedHashes

\* A caller invokes HashPassword(password); rnd is what rand.Read does on
\* this call.
HashPassword ==
    /\ call.op = "none"
    /\ \E password \in Passwords, rnd \in RandReads :
        LET r == HashPasswordResult(password, rnd) IN
        call' = [op |-> "HashPassword", password |-> password, storedHash |-> <<>>,
                 salt |-> IF r.salts = 1 /\ rnd.ok THEN rnd.salt ELSE <<>>,
                 hash |-> r.hash, ok |-> FALSE, err |-> r.err,
                 salts |-> r.salts, keys |-> r.keys]
    /\ UNCHANGED <<issued, others>>

\* A caller invokes CheckPasswordHash(password, storedHash).
CheckPasswordHash ==
    /\ call.op = "none"
    /\ \E password \in Passwords, storedHash \in StoredHashes :
        LET r == CheckPasswordHashResult(password, storedHash) IN
        call' = [op |-> "CheckPasswordHash", password |-> password,
                 storedHash |-> storedHash, salt |-> <<>>, hash |-> <<>>,
                 ok |-> r.ok, err |-> r.err, salts |-> 0, keys |-> r.keys]
    /\ UNCHANGED <<issued, others>>

\* The caller takes the result; an EncodedHash that was returned is kept,
\* the oldest one dropped when MaxIssued are kept already.
Return ==
    /\ call.op # "none"
    /\ issued' =
        IF call.op = "HashPassword" /\ call.err = "nil"
        THEN LET all == Append(issued,
                    [password |-> call.password, salt |-> call.salt, hash |-> call.hash])
             IN  IF Len(all) > MaxIssued THEN Tail(all) ELSE all
        ELSE issued
    /\ call' = NoCall
    /\ UNCHANGED others

Next ==
    \/ HashPassword
    \/ CheckPasswordHash
    \/ Return

Spec == Init /\ [][Next]_vars

(***************************************************************************)
(* Vocabulary of the properties.                                           *)
(***************************************************************************)
Issued == {issued[i] : i \in 1..Len(issued)}

HashReturned == call.op = "HashPassword" /\ call.err = "nil"

Checked == call.op = "CheckPasswordHash"

\* The number of occurrences of character c in s.
CountOf(c, s) == Cardinality({i \in 1..Len(s) : s[i] = c})

\* The fields of s counted and cut by its colons, without Split: field k
\* lies between the (k-1)-th and the k-th colon.
Colons(s) == {i \in 1..Len(s) : s[i] = ":"}

FieldOf(s, k) ==
    LET before(i) == Cardinality({j \in Colons(s) : j < i})
        chars == {i \in 1..Len(s) : s[i] # ":" /\ before(i) = k - 1}
    IN  IF chars = {} THEN <<>>
        ELSE LET first == CHOOSE i \in chars : \A j \in chars : i <= j
             IN  SubSeq(s, first, first + Cardinality(chars) - 1)

FourFields(s) == Cardinality(Colons(s)) = 3

\* The error kinds of the specification, as the errors of the code.
EmptyInput == {ErrPasswordEmpty, ErrEmptyArguments}

MalformedHash == {ErrInvalidHashFormat, ErrParseIterations, ErrDecodeSalt, ErrDecodeHash}

\* f is one or more decimal digits and denotes a positive number.
PositiveDecimal(f) ==
    /\ Len(f) >= 1
    /\ \A i \in 1..Len(f) : f[i] \in Range(Digits)
    /\ \E i \in 1..Len(f) : f[i] # "0"

\* f is unpadded base64: characters of the alphabet only, and a length
\* that some byte string encodes to.
ValidRawBase64(f) ==
    /\ \A i \in 1..Len(f) : f[i] \in Range(encodeStd)
    /\ Len(f) % 4 # 1

\* The positions at which two strings of one length differ.
Differences(s, t) == {i \in 1..Len(s) : s[i] # t[i]}

\* The issued hashes of which the checked stored hash is a copy with one
\* character of the digest field replaced.
TamperedFrom ==
    {e \in Issued :
        /\ Len(e.hash) = Len(call.storedHash)
        /\ Cardinality(Differences(e.hash, call.storedHash)) = 1
        /\ \A i \in Differences(e.hash, call.storedHash) : i >= DigestStart(e.hash)}

(***************************************************************************)
(* C1.  Round trip: a plaintext verifies true, without error, against      *)
(* every EncodedHash that HashPassword returned for it, whatever the salt. *)
(***************************************************************************)
C1_RoundTrip ==
    Checked =>
        \A e \in Issued :
            (e.hash = call.storedHash /\ e.password = call.password)
                => (call.ok /\ call.err = "nil")

C1_Witness ==
    /\ Checked
    /\ call.ok
    /\ \E e \in Issued : e.hash = call.storedHash /\ e.password = call.password

(***************************************************************************)
(* C2.  A wrong password is a false result, never an error: a non-empty    *)
(* plaintext other than the one an EncodedHash was returned for verifies   *)
(* false against it, with no error.                                        *)
(***************************************************************************)
C2_WrongPasswordIsFalse ==
    (Checked /\ call.password # <<>>) =>
        \A e \in Issued :
            (e.hash = call.storedHash /\ e.password # call.password)
                => (~call.ok /\ call.err = "nil")

C2_Witness ==
    /\ Checked
    /\ call.password # <<>>
    /\ ~call.ok
    /\ call.err = "nil"
    /\ \E e \in Issued : e.hash = call.storedHash /\ e.password # call.password

(***************************************************************************)
(* C3.  Salt uniqueness.  As claimed: no two successful HashPassword calls *)
(* use the same salt.  The code draws every salt afresh from the random    *)
(* source and compares it with nothing, so a repeat is an outcome it       *)
(* allows; C3_SaltsNeverRepeat states the claim and fails.                 *)
(***************************************************************************)
C3_SaltsNeverRepeat ==
    HashReturned => \A e \in Issued : e.salt # call.salt

(***************************************************************************)
(* C3, amended.  Two successful HashPassword calls on the same plaintext   *)
(* return different EncodedHash strings exactly when they drew different   *)
(* salts, and each returned string verifies true against that plaintext.   *)
(***************************************************************************)
C3_DistinctSaltsDistinctHashes ==
    HashReturned =>
        /\ CheckPasswordHashResult(call.password, call.hash).ok
        /\ \A e \in Issued :
            /\ CheckPasswordHashResult(e.password, e.hash).ok
            /\ e.password = call.password
                => ((e.hash # call.hash) <=> (e.salt # call.salt))

C3_Witness ==
    /\ HashReturned
    /\ \E e \in Issued :
        e.password = call.password /\ e.salt # call.salt /\ e.hash # call.hash

(***************************************************************************)
(* C4.  Every string HashPassword returns without error has exactly four   *)
(* colon-separated fields: "pbkdf2-sha256", "1000000", the 22 characters   *)
(* of the unpadded base64 of the 16-byte salt that was drawn, and the 43   *)
(* characters of the unpadded base64 of a 32-byte key; no field holds a    *)
(* colon.                                                                  *)
(***************************************************************************)
C4_PersistedGrammar ==
    HashReturned =>
        /\ FourFields(call.hash)
        /\ FieldOf(call.hash, 1) = passwordAlgorithmKey
        /\ FieldOf(call.hash, 2) = <<"1","0","0","0","0","0","0">>
        /\ Len(call.salt) = 16
        /\ Len(FieldOf(call.hash, 3)) = 22
        /\ ValidRawBase64(FieldOf(call.hash, 3))
        /\ DecodeString(FieldOf(call.hash, 3)).bytes = call.salt
        /\ Len(FieldOf(call.hash, 4)) = 43
        /\ ValidRawBase64(FieldOf(call.hash, 4))
        /\ Len(DecodeString(FieldOf(call.hash, 4)).bytes) = 32
        /\ Len(call.hash) = 13 + 1 + 7 + 1 + 22 + 1 + 43

C4_Witness ==
    /\ HashReturned
    /\ call.salt = Salt(NumSalts)
    /\ Len(call.hash) > 0

(***************************************************************************)
(* C5.  Empty input is rejected before anything else.  HashPassword("")    *)
(* returns the empty-input error and draws no salt; CheckPasswordHash      *)
(* returns false and the empty-input error when the plaintext or the       *)
(* stored hash is empty, whatever the other argument is.                   *)
(***************************************************************************)
C5_EmptyInputRejected ==
    /\ (call.op = "HashPassword" /\ call.password = <<>>)
        => /\ call.err = ErrPasswordEmpty
           /\ call.hash = <<>>
           /\ call.salts = 0
           /\ call.keys = 0
    /\ (Checked /\ (call.password = <<>> \/ call.storedHash = <<>>))
        => /\ call.err = ErrEmptyArguments
           /\ ~call.ok
           /\ call.keys = 0

\* An empty plaintext checked against a stored hash that is itself malformed.
C5_Witness ==
    /\ Checked
    /\ call.password = <<>>
    /\ call.storedHash # <<>>
    /\ ~FourFields(call.storedHash)
    /\ call.err \in EmptyInput

(***************************************************************************)
(* C6.  For a non-empty plaintext and a non-empty stored hash that does    *)
(* not have exactly four colon-separated fields (fewer or more),           *)
(* CheckPasswordHash fails with ErrInvalidHashFormat and derives no key.   *)
(***************************************************************************)
C6_WrongFieldCount ==
    (Checked /\ call.password # <<>> /\ call.storedHash # <<>>
        /\ ~FourFields(call.storedHash))
        => /\ call.err = ErrInvalidHashFormat
           /\ ~call.ok
           /\ call.keys = 0

\* More than four fields, some of them empty.
C6_Witness ==
    /\ Checked
    /\ call.password # <<>>
    /\ Cardinality(Colons(call.storedHash)) = 4
    /\ FieldOf(call.storedHash, 5) = <<>>
    /\ call.err = ErrInvalidHashFormat

(***************************************************************************)
(* C7.  For a non-empty plaintext and a stored hash of exactly four        *)
(* fields whose first field is not "pbkdf2-sha256", CheckPasswordHash      *)
(* fails with ErrIncompatibleAlgorithm whatever the other three fields     *)
(* hold, and derives no key.                                               *)
(***************************************************************************)
C7_UnsupportedAlgorithm ==
    (Checked /\ call.password # <<>> /\ FourFields(call.storedHash)
        /\ FieldOf(call.storedHash, 1) # passwordAlgorithmKey)
        => /\ call.err = ErrIncompatibleAlgorithm
           /\ ~call.ok
           /\ call.keys = 0

\* The algorithm is wrong and the iterations and the salt are unparsable too.
C7_Witness ==
    /\ Checked
    /\ call.password # <<>>
    /\ FourFields(call.storedHash)
    /\ FieldOf(call.storedHash, 1) = <<>>
    /\ ~PositiveDecimal(FieldOf(call.storedHash, 2))
    /\ ~ValidRawBase64(FieldOf(call.storedHash, 3))
    /\ call.err = ErrIncompatibleAlgorithm

(***************************************************************************)
(* C8.  A four-field pbkdf2-sha256 stored hash whose iterations field is   *)
(* not a positive number written as one or more decimal digits is rejected *)
(* with a malformed-hash error, and no key is derived.  The code accepts   *)
(* whatever fmt.Sscan accepts and never tests the sign of the result, so   *)
(* this fails: "0", "-5" and "12a" all reach the key derivation.           *)
(***************************************************************************)
C8_BadIterationsRejected ==
    (Checked /\ call.password # <<>> /\ FourFields(call.storedHash)
        /\ FieldOf(call.storedHash, 1) = passwordAlgorithmKey
        /\ ~PositiveDecimal(FieldOf(call.storedHash, 2)))
        => /\ call.err \in MalformedHash
           /\ ~call.ok
           /\ call.keys = 0

(***************************************************************************)
(* C9.  A four-field pbkdf2-sha256 stored hash (its iterations a positive  *)
(* decimal number) whose salt field or digest field is not valid unpadded  *)
(* base64 is rejected with the error of the wrong field count,             *)
(* ErrInvalidHashFormat.  The code returns the wrapped error of the        *)
(* base64 decoder instead, which is no ErrInvalidHashFormat, so this       *)
(* fails.                                                                  *)
(***************************************************************************)
C9_BadBase64IsInvalidFormat ==
    (Checked /\ call.password # <<>> /\ FourFields(call.storedHash)
        /\ FieldOf(call.storedHash, 1) = passwordAlgorithmKey
        /\ PositiveDecimal(FieldOf(call.storedHash, 2))
        /\ (\/ ~ValidRawBase64(FieldOf(call.storedHash, 3))
            \/ ~ValidRawBase64(FieldOf(call.storedHash, 4))))
        => /\ call.err = ErrInvalidHashFormat
           /\ ~call.ok

(***************************************************************************)
(* C10.  Tampered digest.  As claimed: a plaintext checked against its own *)
(* EncodedHash with any one character of the digest field replaced by any  *)
(* other character gives (false, no error).  C10_TamperedDigestIsFalse     *)
(* states the claim and fails.                                             *)
(***************************************************************************)
C10_TamperedDigestIsFalse ==
    Checked =>
        \A e \in TamperedFrom :
            e.password = call.password => (~call.ok /\ call.err = "nil")

(***************************************************************************)
(* C10, amended.  With one character of the digest field replaced:         *)
(*  - by a colon, the stored hash has five fields: ErrInvalidHashFormat;   *)
(*  - by a line break, which the decoder skips, the 42 characters left     *)
(*    decode to 31 bytes, no error is returned, and the result is true     *)
(*    exactly when these are the first 31 bytes of the stored key, as they *)
(*    always are when the line break replaces the last character;          *)
(*  - by another character outside the base64 alphabet: the decode error   *)
(*    of the digest;                                                       *)
(*  - by a character of the alphabet: (false, nil), but at the last        *)
(*    position, whose two low bits encode nothing, a replacement that      *)
(*    differs in those two bits only gives (true, nil).                    *)
(***************************************************************************)
C10_TamperedDigest ==
    Checked =>
        \A e \in TamperedFrom :
            e.password = call.password =>
                LET pos  == CHOOSE i \in Differences(e.hash, call.storedHash) : TRUE
                    c    == call.storedHash[pos]
                    last == pos = Len(e.hash)
                    sameBits == decodeMap[c] \div 4 = decodeMap[e.hash[pos]] \div 4
                    key  == DecodeString(FieldOf(e.hash, 4)).bytes
                    left == DecodeString(FieldOf(call.storedHash, 4)).bytes
                IN  IF c = ":" THEN call.err = ErrInvalidHashFormat /\ ~call.ok
                    ELSE IF c \in {"\n", "\r"} THEN
                        /\ call.err = "nil"
                        /\ Len(left) = 31
                        /\ call.ok <=> (left = SubSeq(key, 1, 31))
                        /\ last => call.ok
                    ELSE IF c \notin Range(encodeStd) THEN call.err = ErrDecodeHash /\ ~call.ok
                    ELSE call.err = "nil" /\ (call.ok <=> (last /\ sameBits))

\* The last character of the digest replaced by one that differs in its two
\* low bits only, and the tampered hash accepted.
C10_Witness ==
    /\ Checked
    /\ call.ok
    /\ \E e \in TamperedFrom :
        /\ e.password = call.password
        /\ call.storedHash[Len(e.hash)] \in Range(encodeStd)
        /\ call.storedHash[Len(e.hash)] # e.hash[Len(e.hash)]

(***************************************************************************)
(* Stored hashes of other cost settings.  HashPassword writes its          *)
(* iteration count into the string; EncodedHashAt is lines 41-48 with the  *)
(* constant passwordIterations set to `iterations`, as a build with        *)
(* another default cost runs them.                                         *)
(***************************************************************************)
EncodedHashAt(password, salt, iterations) ==
    Join(<< passwordAlgorithmKey, FormatInt(iterations), EncodeToString(salt),
            EncodeToString(Key(password, salt, iterations, passwordHashBytes)) >>, ":")

\* The OWASP count that the comment of line 19 names.
owaspIterations == 600000

OldIterations == (1..MaxOldIterations) \cup {owaspIterations, passwordIterations}

\* A caller invokes CheckPasswordHash on a hash that was stored under some
\* cost setting.
CheckOldHash ==
    /\ call.op = "none"
    /\ \E password \in Passwords, owner \in NonEmptyPasswords,
          i \in 1..NumSalts, n \in OldIterations :
        LET storedHash == EncodedHashAt(owner, Salt(i), n)
            r == CheckPasswordHashResult(password, storedHash)
        IN  call' = [op |-> "CheckPasswordHash", password |-> password,
                     storedHash |-> storedHash, salt |-> <<>>, hash |-> <<>>,
                     ok |-> r.ok, err |-> r.err, salts |-> 0, keys |-> r.keys]
    /\ UNCHANGED <<issued, others>>

NextOld ==
    \/ CheckOldHash
    \/ Return

SpecOld == Init /\ [][NextOld]_vars

(***************************************************************************)
(* C11.  Verification uses the parameters stored in the hash, not the      *)
(* current defaults: a well-formed stored hash whose digest was derived    *)
(* from (p, salt, n), n positive and equal to the default or not, verifies *)
(* true against p and false against every other non-empty plaintext, with  *)
(* no error.                                                               *)
(***************************************************************************)
C11_StoredParametersUsed ==
    (Checked /\ call.password # <<>>) =>
        \A owner \in NonEmptyPasswords, i \in 1..NumSalts, n \in OldIterations :
            call.storedHash = EncodedHashAt(owner, Salt(i), n)
                => /\ call.err = "nil"
                   /\ call.ok <=> (call.password = owner)

\* A hash of another cost than the default, verified true.
C11_Witness ==
    /\ Checked
    /\ call.ok
    /\ FourFields(call.storedHash)
    /\ FieldOf(call.storedHash, 2) = <<"3">>
    /\ \E owner \in NonEmptyPasswords, i \in 1..NumSalts :
        call.storedHash = EncodedHashAt(owner, Salt(i), 3) /\ owner = call.password

(***************************************************************************)
(* Concurrent invocations.  Each of the NumProcs goroutines calls one of   *)
(* the two functions once and runs it in steps that interleave with the    *)
(* steps of the others.  Every variable of the two functions is a local    *)
(* one (password.go declares package-level constants and two error values  *)
(* that nothing assigns), and rand.Read may be called concurrently.        *)
(***************************************************************************)
\* Local variables with the slip of declaring them at package level: every
\* invocation reads the ones the first goroutine wrote.
localShared(p) == frames[1]

\* The local variables of invocation p.
local(p) == frames[p]

\* Arguments of the concurrent callers: both passwords and the empty one for
\* HashPassword; for CheckPasswordHash a well-formed stored hash with its
\* password and with another one, a stored hash of another algorithm, and
\* each argument empty.
ConcurrentPasswords == {<<>>, PasswordOf(1), PasswordOf(2)}

ConcurrentRands ==
    {[ok |-> TRUE, salt |-> Salt(1)], [ok |-> TRUE, salt |-> Salt(2)],
     [ok |-> FALSE, salt |-> <<>>]}

ConcurrentHashes ==
    {EncodedHashAt(PasswordOf(1), Salt(1), passwordIterations), scrypt, <<>>}

ConcurrentChecks ==
    { <<PasswordOf(1), EncodedHashAt(PasswordOf(1), Salt(1), passwordIterations)>>,
      <<PasswordOf(2), EncodedHashAt(PasswordOf(1), Salt(1), passwordIterations)>>,
      <<PasswordOf(1), scrypt>>,
      <<PasswordOf(1), <<>> >>,
      << <<>>, EncodedHashAt(PasswordOf(1), Salt(1), passwordIterations)>> }

\* Goroutine p calls HashPassword(password) or CheckPasswordHash(password,
\* storedHash).
Enter(p) ==
    /\ frames[p].pc = "idle"
    /\ \/ \E password \in ConcurrentPasswords :
            frames' = [frames EXCEPT ![p] =
                [NoFrame EXCEPT !.pc = "entered", !.op = "HashPassword",
                                !.password = password]]
       \/ \E args \in ConcurrentChecks :
            frames' = [frames EXCEPT ![p] =
                [NoFrame EXCEPT !.pc = "entered", !.op = "CheckPasswordHash",
                                !.password = args[1], !.storedHash = args[2]]]
    /\ UNCHANGED <<issued, call, store>>

\* HashPassword, lines 32-39: the empty test and the salt.
HashDrawSalt(p) ==
    /\ frames[p].pc = "entered"
    /\ frames[p].op = "HashPassword"
    /\ IF local(p).password = <<>>
       THEN frames' = [frames EXCEPT ![p].pc = "done", ![p].err = ErrPasswordEmpty]
       ELSE \E rnd \in ConcurrentRands :
            frames' = [frames EXCEPT
                ![p].rnd = rnd,
                ![p].salt = rnd.salt,
                ![p].pc = IF rnd.ok THEN "salted" ELSE "done",
                ![p].err = IF rnd.ok THEN "nil" ELSE ErrGenerateSalt]
    /\ UNCHANGED <<issued, call, store>>

\* HashPassword, lines 41-48: derive, encode, format; the function tabulated
\* over the arguments the callers draw from.
derivedHash ==
    [password \in ConcurrentPasswords, salt \in {rnd.salt : rnd \in ConcurrentRands} |->
        FormatHash(EncodeToString(salt),
                   EncodeToString(Key(password, salt, passwordIterations,
                                      passwordHashBytes)))]

HashDerive(p) ==
    /\ frames[p].pc = "salted"
    /\ frames' = [frames EXCEPT
            ![p].hash = derivedHash[local(p).password, local(p).salt],
            ![p].pc = "done"]
    /\ UNCHANGED <<issued, call, store>>

\* CheckPasswordHash, lines 54-81: the error of the first test that fails,
\* or the parsed iterations, salt and digest.
parseStoredHash(password, storedHash) ==
    LET parts == Split(storedHash, ":")
        none  == [iterations |-> 0, salt |-> <<>>, digest |-> <<>>]
    IN  IF password = <<>> \/ storedHash = <<>>
            THEN none @@ [err |-> ErrEmptyArguments]
        ELSE IF Len(parts) # 4 THEN none @@ [err |-> ErrInvalidHashFormat]
        ELSE IF parts[1] # passwordAlgorithmKey THEN none @@ [err |-> ErrIncompatibleAlgorithm]
        ELSE IF parseInt(parts[2]).err THEN none @@ [err |-> ErrParseIterations]
        ELSE IF DecodeString(parts[3]).err THEN none @@ [err |-> ErrDecodeSalt]
        ELSE IF DecodeString(parts[4]).err THEN none @@ [err |-> ErrDecodeHash]
        ELSE [iterations |-> parseInt(parts[2]).n,
              salt |-> DecodeString(parts[3]).bytes,
              digest |-> DecodeString(parts[4]).bytes,
              err |-> "nil"]

\* parseStoredHash tabulated over the arguments the callers draw from.
parsedHash ==
    [password \in ConcurrentPasswords, storedHash \in ConcurrentHashes |->
        parseStoredHash(password, storedHash)]

CheckParse(p) ==
    /\ frames[p].pc = "entered"
    /\ frames[p].op = "CheckPasswordHash"
    /\ frames' = [frames EXCEPT
            ![p].iterations = parsedHash[local(p).password, local(p).storedHash].iterations,
            ![p].salt = parsedHash[local(p).password, local(p).storedHash].salt,
            ![p].digest = parsedHash[local(p).password, local(p).storedHash].digest,
            ![p].err = parsedHash[local(p).password, local(p).storedHash].err,
            ![p].pc = IF parsedHash[local(p).password, local(p).storedHash].err = "nil"
                      THEN "parsed" ELSE "done"]
    /\ UNCHANGED <<issued, call, store>>

\* CheckPasswordHash, lines 84-91: derive and compare; matches tabulated
\* over the values the locals can hold.
compared ==
    LET results  == {parsedHash[a] : a \in DOMAIN parsedHash}
        salts    == {r.salt : r \in results} \cup {rnd.salt : rnd \in ConcurrentRands}
    IN  [password \in ConcurrentPasswords, salt \in salts,
         iterations \in {r.iterations : r \in results},
         digest \in {r.digest : r \in results} |->
            matches(password, salt, iterations, digest)]

CheckCompare(p) ==
    /\ frames[p].pc = "parsed"
    /\ frames' = [frames EXCEPT
            ![p].ok = compared[local(p).password, local(p).salt,
                               local(p).iterations, local(p).digest],
            ![p].pc = "done"]
    /\ UNCHANGED <<issued, call, store>>

Step(p) ==
    \/ HashDrawSalt(p)
    \/ HashDerive(p)
    \/ CheckParse(p)
    \/ CheckCompare(p)

NextConcurrent == \E p \in Procs : Enter(p) \/ Step(p)

SpecConcurrent == Init /\ [][NextConcurrent]_vars

\* The results of the invocations run alone, on every argument the
\* concurrent callers draw from.
aloneHashPassword ==
    [password \in ConcurrentPasswords, rnd \in ConcurrentRands |->
        HashPasswordResult(password, rnd)]

aloneCheckPasswordHash ==
    [password \in ConcurrentPasswords, storedHash \in ConcurrentHashes |->
        CheckPasswordHashResult(password, storedHash)]

(***************************************************************************)
(* C12.  HashPassword and CheckPasswordHash share no mutable state: under  *)
(* every interleaving, an invocation that has returned has the result it   *)
(* gives when run alone on the same arguments (and, for HashPassword, the  *)
(* same outcome of rand.Read), and an invocation that has not returned can *)
(* take its next step whatever the others are doing.                       *)
(***************************************************************************)
C12_IndependentInvocations ==
    \A p \in Procs :
        /\ (frames[p].pc = "done" /\ frames[p].op = "HashPassword") =>
            /\ frames[p].hash = aloneHashPassword[frames[p].password, frames[p].rnd].hash
            /\ frames[p].err = aloneHashPassword[frames[p].password, frames[p].rnd].err
        /\ (frames[p].pc = "done" /\ frames[p].op = "CheckPasswordHash") =>
            /\ frames[p].ok =
                   aloneCheckPasswordHash[frames[p].password, frames[p].storedHash].ok
            /\ frames[p].err =
                   aloneCheckPasswordHash[frames[p].password, frames[p].storedHash].err
        /\ frames[p].pc \in {"entered", "salted", "parsed"} => ENABLED Step(p)

\* Two invocations on different arguments that were in flight together have
\* both returned, one with a hash and one with a match.
C12_Witness ==
    /\ frames[1].pc = "done" /\ frames[1].op = "HashPassword"
    /\ frames[1].hash # <<>>
    /\ frames[2].pc = "done" /\ frames[2].op = "CheckPasswordHash"
    /\ frames[2].ok
    /\ frames[2].password # frames[1].password

(***************************************************************************)
(* The user repository.  DBUserRepository hashes the password field of     *)
(* CreateUser and UpdateUser and hands the rest to the store, whose        *)
(* queries act on the users table.                                         *)
(***************************************************************************)
UserIds == 1..NumUsers

ErrStore == "store error"

ErrNoRows == "no rows in result set"

\* HashPassword on every password and every outcome of rand.Read.
hashed ==
    [password \in Passwords, rnd \in RandReads |-> HashPasswordResult(password, rnd)]

\* What the repository can be handed as the new password of UpdateUser:
\* absent, absent with a string left in the field, present and empty,
\* present.
NewPasswords ==
    {Text(<<>>, FALSE), Text(PasswordOf(1), FALSE)}
    \cup {Text(password, TRUE) : password \in Passwords}

\* CreateUser storing the field as it came.
hashedPasswordPlain(plain, hashedPassword) == plain

\* user.go line 37: arg.HashedPassword = hashedPassword.
hashedPasswordField(plain, hashedPassword) == hashedPassword

\* UpdateUser hashing whatever is present.
usableValid(text) == text.Valid

\* user.go line 64: arg.HashedPassword.Valid && arg.HashedPassword.String != "".
usable(text) == text.Valid /\ text.String # <<>>

\* UpdateUser passing an empty new password on.
nullIfEmptyKept(text) == text

\* user.go lines 72-75: an absent password stays absent, a present empty one
\* becomes absent.
nullIfEmpty(text) ==
    IF ~text.Valid THEN text
    ELSE IF text.String = <<>> THEN [text EXCEPT !.Valid = FALSE]
    ELSE text

\* An UPDATE that leaves the column out.
coalesceOld(arg, old) == old

\* user.sql line 59: COALESCE(sqlc.narg(hashed_password), hashed_password).
coalesce(arg, old) == IF arg.Valid THEN arg.String ELSE old

\* user.sql CreateUser: INSERT INTO users ... RETURNING.
InsertUser(table, id, hashed_password) ==
    (id :> [hashed_password |-> hashed_password]) @@ table

\* user.sql UpdateUser: UPDATE users SET ... WHERE id = sqlc.arg(id).
UpdateRow(table, id, arg) ==
    [table EXCEPT ![id].hashed_password = coalesce(arg, @)]

\* user.sql DeleteUser: DELETE FROM users WHERE id = $1.
DeleteRow(table, id) == [i \in DOMAIN table \ {id} |-> table[i]]

\* DBUserRepository.CreateUser(ctx, arg), arg.HashedPassword = password; rnd
\* is what rand.Read does, dbOk whether the INSERT goes through.
CreateUser ==
    /\ repo.op = "none"
    /\ \E password \in Passwords, rnd \in RandReads, dbOk \in BOOLEAN :
        LET r == hashed[password, rnd]
            field == hashedPasswordField(password, r.hash)
            inserted == r.err = "nil" /\ dbOk /\ nextId <= NumUsers
        IN  /\ users' = IF inserted THEN InsertUser(users, nextId, field) ELSE users
            /\ nextId' = IF inserted THEN nextId + 1 ELSE nextId
            /\ repo' = [op |-> "CreateUser", id |-> IF inserted THEN nextId ELSE 0,
                        password |-> Text(password, TRUE), hashCalls |-> 1,
                        hash |-> r.hash, storeCalled |-> r.err = "nil",
                        storeArg |-> IF r.err = "nil" THEN Text(field, TRUE)
                                     ELSE Text(<<>>, FALSE),
                        err |-> IF r.err # "nil" THEN r.err
                                ELSE IF inserted THEN "nil" ELSE ErrStore,
                        before |-> users]
    /\ UNCHANGED <<issued, call, frames>>

\* DBUserRepository.UpdateUser(ctx, arg), arg.ID = id and
\* arg.HashedPassword = password.
UpdateUser ==
    /\ repo.op = "none"
    /\ \E id \in UserIds, password \in NewPasswords, rnd \in RandReads, dbOk \in BOOLEAN :
        LET r == hashed[password.String, rnd]
            failed == usable(password) /\ r.err # "nil"
            arg == IF usable(password) THEN Text(r.hash, TRUE) ELSE nullIfEmpty(password)
            updated == ~failed /\ dbOk /\ id \in DOMAIN users
        IN  /\ users' = IF updated THEN UpdateRow(users, id, arg) ELSE users
            /\ repo' = [op |-> "UpdateUser", id |-> id, password |-> password,
                        hashCalls |-> IF usable(password) THEN 1 ELSE 0,
                        hash |-> IF usable(password) THEN r.hash ELSE <<>>,
                        storeCalled |-> ~failed,
                        storeArg |-> IF failed THEN Text(<<>>, FALSE) ELSE arg,
                        err |-> IF failed THEN r.err
                                ELSE IF updated THEN "nil"
                                ELSE IF id \in DOMAIN users THEN ErrStore ELSE ErrNoRows,
                        before |-> users]
    /\ UNCHANGED <<nextId, issued, call, frames>>

\* DBUserRepository.DeleteUser(ctx, id).
DeleteUser ==
    /\ repo.op = "none"
    /\ \E id \in UserIds, dbOk \in BOOLEAN :
        /\ users' = IF dbOk THEN DeleteRow(users, id) ELSE users
        /\ repo' = [NoRepo EXCEPT !.op = "DeleteUser", !.id = id, !.storeCalled = TRUE,
                                  !.err = IF dbOk THEN "nil" ELSE ErrStore,
                                  !.before = users]
    /\ UNCHANGED <<nextId, issued, call, frames>>

\* The caller takes the result of the repository call.
RepoReturn ==
    /\ repo.op # "none"
    /\ repo' = NoRepo
    /\ UNCHANGED <<users, nextId, issued, call, frames>>

NextRepo ==
    \/ CreateUser
    \/ UpdateUser
    \/ DeleteUser
    \/ RepoReturn

SpecRepo == Init /\ [][NextRepo]_vars

\* The strings HashPassword returns without an error.
HashPasswordOutputs ==
    {hashed[a].hash : a \in {b \in DOMAIN hashed : hashed[b].err = "nil"}}

\* CheckPasswordHash on every password and every string the table can hold.
verifies ==
    [password \in Passwords, storedHash \in HashPasswordOutputs \cup Passwords |->
        CheckPasswordHashResult(password, storedHash)]

Created == repo.op = "CreateUser"

Updated == repo.op = "UpdateUser"

(***************************************************************************)
(* C13.  CreateUser calls HashPassword once on the supplied password       *)
(* field; when that fails it returns the error, the store insert is not    *)
(* called and the table is as before; when it succeeds the insert gets     *)
(* the string HashPassword returned, which is not the supplied plaintext,  *)
(* and a row that was created holds that string.                           *)
(***************************************************************************)
C13_HashedBeforeInsert ==
    Created =>
        /\ repo.hashCalls = 1
        /\ \E rnd \in RandReads :
            LET r == hashed[repo.password.String, rnd]
            IN  IF r.err # "nil"
                THEN /\ repo.err = r.err
                     /\ ~repo.storeCalled
                     /\ users = repo.before
                ELSE /\ repo.storeCalled
                     /\ repo.storeArg = Text(r.hash, TRUE)
                     /\ repo.storeArg.String # repo.password.String
                     /\ repo.err = "nil" =>
                            /\ DOMAIN users = DOMAIN repo.before \cup {repo.id}
                            /\ users[repo.id].hashed_password = r.hash
                     /\ repo.err # "nil" => users = repo.before

\* A user was created: the row holds the hash, which verifies the password.
C13_Witness ==
    /\ Created
    /\ repo.err = "nil"
    /\ repo.id \in DOMAIN users
    /\ users[repo.id].hashed_password = repo.hash
    /\ verifies[repo.password.String, users[repo.id].hashed_password].ok

\* The digest of row id in a table, as a set: empty when there is no row.
DigestOf(table, id) ==
    IF id \in DOMAIN table THEN {table[id].hashed_password} ELSE {}

(***************************************************************************)
(* C14.  UpdateUser with the new password absent, or present and empty,    *)
(* does not call HashPassword, hands the store a NULL password and leaves  *)
(* the whole table, the row's digest included, as it was; it does not      *)
(* return the empty-password error of HashPassword.                        *)
(***************************************************************************)
C14_NoPasswordNoChange ==
    (Updated /\ (~repo.password.Valid \/ repo.password.String = <<>>)) =>
        /\ repo.hashCalls = 0
        /\ repo.storeCalled
        /\ ~repo.storeArg.Valid
        /\ DigestOf(users, repo.id) = DigestOf(repo.before, repo.id)
        /\ users = repo.before
        /\ repo.err # ErrPasswordEmpty

\* An update with a present, empty new password went through on a row.
C14_Witness ==
    /\ Updated
    /\ repo.password = Text(<<>>, TRUE)
    /\ repo.err = "nil"
    /\ repo.id \in DOMAIN users
    /\ users[repo.id].hashed_password \in HashPasswordOutputs

(***************************************************************************)
(* C15.  UpdateUser with a non-empty new password p calls HashPassword     *)
(* once.  When that fails, the error is returned, the store update is not  *)
(* called and the table is as before.  When the update succeeds, the row   *)
(* holds the string HashPassword returned: p verifies against it, and a    *)
(* password other than p that verified against the previous digest does    *)
(* not.                                                                    *)
(***************************************************************************)
C15_DigestReplaced ==
    (Updated /\ repo.password.Valid /\ repo.password.String # <<>>) =>
        /\ repo.hashCalls = 1
        /\ repo.hash = <<>> =>
            /\ repo.err = ErrGenerateSalt
            /\ ~repo.storeCalled
            /\ users = repo.before
        /\ repo.err = "nil" =>
            /\ repo.hash \in {hashed[repo.password.String, rnd].hash : rnd \in RandReads}
            /\ repo.storeArg = Text(repo.hash, TRUE)
            /\ DigestOf(users, repo.id) = {repo.hash}
            /\ verifies[repo.password.String, repo.hash].ok
            /\ \A old \in Passwords \ {repo.password.String} :
                   (\E h \in DigestOf(repo.before, repo.id) : verifies[old, h].ok)
                       => ~verifies[old, repo.hash].ok
        /\ (repo.hash # <<>> /\ repo.err # "nil") => users = repo.before

\* A password was changed: the previous digest verified another password.
C15_Witness ==
    /\ Updated
    /\ repo.password.Valid
    /\ repo.err = "nil"
    /\ repo.hashCalls = 1
    /\ \E old \in NonEmptyPasswords \ {repo.password.String} :
           \E h \in DigestOf(repo.before, repo.id) : verifies[old, h].ok
    /\ DigestOf(users, repo.id) = {repo.hash}

(***************************************************************************)
(* C16.  Every hashed_password in the users table is a string HashPassword *)
(* returned: four fields separated by ':', the first "pbkdf2-sha256";      *)
(* never a plaintext password and never the empty string.  (The column is  *)
(* TEXT NOT NULL, and every value written to it is a string.)              *)
(***************************************************************************)
C16_StoredDigestsWellFormed ==
    \A id \in DOMAIN users :
        /\ users[id].hashed_password \in HashPasswordOutputs
        /\ FourFields(users[id].hashed_password)
        /\ FieldOf(users[id].hashed_password, 1) = passwordAlgorithmKey
        /\ users[id].hashed_password \notin Passwords
        /\ users[id].hashed_password # <<>>

\* A row whose digest an update has replaced.
C16_Witness ==
    /\ Updated
    /\ repo.err = "nil"
    /\ repo.id \in DOMAIN users
    /\ DigestOf(repo.before, repo.id) # DigestOf(users, repo.id)
    /\ users[repo.id].hashed_password \in HashPasswordOutputs

(***************************************************************************)
(* C17.  No vacuous match: when CheckPasswordHash returns true, the digest *)
(* field of the stored hash is not empty and decodes to at least one byte, *)
(* and those bytes are the key derived from the supplied plaintext with    *)
(* the stored salt and iterations.  The code compares the decoded digest   *)
(* with a key of the digest's own length and does not test that length,    *)
(* so an empty digest field is compared as zero bytes with zero bytes and  *)
(* verifies true for every plaintext: this fails.                          *)
(***************************************************************************)
C17_NoVacuousMatch ==
    (Checked /\ call.ok) =>
        /\ FourFields(call.storedHash)
        /\ FieldOf(call.storedHash, 4) # <<>>
        /\ LET digest == DecodeString(FieldOf(call.storedHash, 4)).bytes
           IN  /\ Len(digest) > 0
               /\ digest = Key(call.password,
                               DecodeString(FieldOf(call.storedHash, 3)).bytes,
                               parseInt(FieldOf(call.storedHash, 2)).n,
                               Len(digest))

=============================================================================
